---- MODULE Spec2Model ----
(***************************************************************************)
(* Model of the data-transformation pipeline of src/1.py.                  *)
(*                                                                         *)
(* Python strings are sequences of one-character strings, so that int(),   *)
(* str(), re.sub, str.split, str.strip and str.startswith are computed.    *)
(* JSON scalars and lists are tagged records [t |-> ..., v |-> ...].       *)
(* A JSON object whose iteration order matters (the ship/skin template) is *)
(* a sequence of <<key, record>> pairs with distinct keys; an object that  *)
(* is only looked up is a function.                                        *)
(***************************************************************************)
EXTENDS Integers, Sequences, FiniteSets, TLC

VARIABLES
    pc,             \* position of the run / of the function under check
    data,           \* replace_namecodes: the input string
    code_mapping,   \* name_code.json as loaded (code -> record)
    once,           \* replace_namecodes(data, code_mapping)
    twice,          \* replace_namecodes(once, code_mapping)
    original_data,  \* ship_skin_template.json as loaded (ordered pairs)
    ships,          \* result of process_ships
    skins,          \* result of process_skins
    id_mapping,     \* id_mapping of generate_combined_data
    template,       \* generate_skin_voice_mapping: template (ordered pairs)
    words,          \* generate_skin_voice_mapping: words (skin id -> fields)
    mapping,        \* generate_skin_voice_mapping: result (group -> key -> name)
    present,        \* main: per input file "missing", "empty" (found, loads as {}) or "ok"
    written         \* main: output files written so far

vars == <<pc, data, code_mapping, once, twice, original_data, ships, skins,
          id_mapping, template, words, mapping, present, written>>

----------------------------------------------------------------------------
(* Bounds *)

MaxFrags == 3       \* fragments concatenated into a replace_namecodes input
MaxShips == 2       \* records in a ship table
MaxSkins == 2       \* entries in a skin template of the voice mapping

----------------------------------------------------------------------------
(* Python values *)

NONE == [t |-> "null"]
Str(s) == [t |-> "str", v |-> s]
Num(n) == [t |-> "int", v |-> n]
List(l) == [t |-> "list", v |-> l]
EMPTY == <<>>                       \* "" , [] and {}

Digits == <<"0", "1", "2", "3", "4", "5", "6", "7", "8", "9">>
IsDigit(c) == \E d \in 1..10 : Digits[d] = c
DigitVal(c) == (CHOOSE d \in 1..10 : Digits[d] = c) - 1

\* str(n) for an int n
RECURSIVE NatStr(_)
NatStr(n) == IF n < 10 THEN <<Digits[n + 1]>>
             ELSE NatStr(n \div 10) \o <<Digits[(n % 10) + 1]>>
IntStr(n) == IF n < 0 THEN <<"-">> \o NatStr(0 - n) ELSE NatStr(n)

\* int(s) for a string s of decimal digits
RECURSIVE ParseInt(_)
ParseInt(s) == IF Len(s) = 0 THEN 0
               ELSE 10 * ParseInt(SubSeq(s, 1, Len(s) - 1)) + DigitVal(s[Len(s)])

\* bool(x)
Truthy(x) == CASE x.t = "null" -> FALSE
               [] x.t = "int" -> x.v # 0
               [] OTHER -> Len(x.v) > 0

\* str(x) for a scalar x
PyStr(x) == CASE x.t = "str" -> x.v
              [] x.t = "int" -> IntStr(x.v)
              [] OTHER -> <<"N", "o", "n", "e">>

\* dict.get(key, default)
Get(d, key, default) == IF key \in DOMAIN d THEN d[key] ELSE default

----------------------------------------------------------------------------
(* replace_namecodes *)

PREFIX == <<"{", "n", "a", "m", "e", "c", "o", "d", "e", ":">>

StartsWith(s, i, p) ==
    /\ i + Len(p) - 1 <= Len(s)
    /\ SubSeq(s, i, i + Len(p) - 1) = p

\* index of the last digit of the maximal run of digits of s that starts at i
\* (i - 1 when s[i] is not a digit)
RECURSIVE DigitRunEnd(_, _)
DigitRunEnd(s, i) == IF i <= Len(s) /\ IsDigit(s[i]) THEN DigitRunEnd(s, i + 1)
                     ELSE i - 1

\* r'{namecode:(\d+)}' matched at position i of s: the index of the closing
\* brace, 0 when there is no match at i
MatchEnd(s, i) ==
    IF ~StartsWith(s, i, PREFIX) THEN 0
    ELSE LET e == DigitRunEnd(s, i + Len(PREFIX))
         IN  IF e >= i + Len(PREFIX) /\ e + 1 <= Len(s) /\ s[e + 1] = "}"
             THEN e + 1 ELSE 0

\* match.group(1) of the match of s at i that ends at e
Group1(s, i, e) == SubSeq(s, i + Len(PREFIX), e - 1)

replace_match_dropping(code, group0, m) == Get(Get(m, code, EMPTY), "name", EMPTY)

replace_match(code, group0, m) == Get(Get(m, code, EMPTY), "name", group0)

\* re.sub(pattern, replace_match, s) from position i on
RECURSIVE ReSub(_, _, _)
ReSub(s, i, m) ==
    IF i > Len(s) THEN <<>>
    ELSE LET e == MatchEnd(s, i)
         IN  IF e = 0 THEN <<s[i]>> \o ReSub(s, i + 1, m)
             ELSE replace_match(Group1(s, i, e), SubSeq(s, i, e), m)
                  \o ReSub(s, e + 1, m)

RECURSIVE replace_namecodes(_, _)
replace_namecodes(x, m) ==
    CASE x.t = "str" -> Str(ReSub(x.v, 1, m))
      [] x.t = "dict" -> [t |-> "dict",
                          v |-> [k \in DOMAIN x.v |-> replace_namecodes(x.v[k], m)]]
      [] x.t = "list" -> List([k \in DOMAIN x.v |-> replace_namecodes(x.v[k], m)])
      [] OTHER -> x

----------------------------------------------------------------------------
(* Inputs of the substitution check *)

PH5 == PREFIX \o <<"5", "}">>         \* "{namecode:5}"
PH6 == PREFIX \o <<"6", "}">>         \* "{namecode:6}"
Fragments == { PREFIX, <<"5">>, <<"}">>, <<"A">>, PH5, PH6 }

RECURSIVE Concats(_)
Concats(n) == IF n = 0 THEN { <<>> }
              ELSE Concats(n - 1)
                   \cup { s \o f : s \in Concats(n - 1), f \in Fragments }

Names == { <<"F">>, <<"6">>, <<>>, PH6 }
Entries == { EMPTY } \cup { [name |-> n] : n \in Names }
Codes == { <<"5">>, <<"6">> }
CodeMappings == UNION { [D -> Entries] : D \in SUBSET Codes }

InitSubst ==
    /\ pc = "subst"
    /\ data \in Concats(MaxFrags)
    /\ code_mapping \in CodeMappings
    /\ once = NONE /\ twice = NONE
    /\ original_data = <<>> /\ ships = <<>> /\ skins = <<>> /\ id_mapping = <<>>
    /\ template = <<>> /\ words = <<>> /\ mapping = <<>>
    /\ present = {} /\ written = {}

ReplaceOnce ==
    /\ pc = "subst"
    /\ once' = replace_namecodes(Str(data), code_mapping)
    /\ pc' = "subst_once"
    /\ UNCHANGED <<data, code_mapping, twice, original_data, ships, skins,
                   id_mapping, template, words, mapping, present, written>>

ReplaceTwice ==
    /\ pc = "subst_once"
    /\ twice' = replace_namecodes(once, code_mapping)
    /\ pc' = "subst_twice"
    /\ UNCHANGED <<data, code_mapping, once, original_data, ships, skins,
                   id_mapping, template, words, mapping, present, written>>

NextSubst == ReplaceOnce \/ ReplaceTwice

SpecSubst == InitSubst /\ [][NextSubst]_vars

\* the placeholders of s, as <<first index, last index>>
Placeholders(s) == { <<i, MatchEnd(s, i)>> : i \in { j \in 1..Len(s) : MatchEnd(s, j) # 0 } }
Resolved(s, p, m) == "name" \in DOMAIN Get(m, Group1(s, p[1], p[2]), EMPTY)
HasUnresolved(s, m) == \E p \in Placeholders(s) : ~Resolved(s, p, m)
HasResolvable(s, m) == \E p \in Placeholders(s) : Resolved(s, p, m)

\* C4 as stated: on an input free of unresolved placeholders a second
\* substitution changes nothing.
C4_Idempotent_AsStated ==
    (pc = "subst_twice" /\ ~HasUnresolved(data, code_mapping)) => twice = once

\* C4 (amended): a placeholder whose code has no entry, or whose entry has no
\* name, is returned character for character between the substituted text
\* before it and the substituted text after it; a string with no placeholder
\* that the mapping resolves is returned unchanged, so a second substitution
\* changes nothing whenever the first result holds no resolvable placeholder.
C4_Substitution ==
    /\ pc # "subst" =>
          /\ \A p \in Placeholders(data) :
                ~Resolved(data, p, code_mapping) =>
                    once.v = ReSub(SubSeq(data, 1, p[1] - 1), 1, code_mapping)
                             \o SubSeq(data, p[1], p[2])
                             \o ReSub(SubSeq(data, p[2] + 1, Len(data)), 1, code_mapping)
          /\ ~HasResolvable(data, code_mapping) => once.v = data
    /\ pc = "subst_twice" =>
          (~HasResolvable(once.v, code_mapping) => twice = once)

\* an input with a resolved and an unresolved placeholder, substituted twice
C4_Witness ==
    /\ pc = "subst_twice"
    /\ HasUnresolved(data, code_mapping)
    /\ HasResolvable(data, code_mapping)
    /\ ~HasResolvable(once.v, code_mapping)
    /\ once.v # data
    /\ twice = once

----------------------------------------------------------------------------
(* process_ships, process_skins, generate_combined_data *)

\* key=lambda x: int(x[0])
ship_sort_key_lexical(item) == Len(item[1])

ship_sort_key(item) == ParseInt(item[1])

\* sorted(items, key=...), keys[i] being the key of items[i]: ascending in
\* the key, equal keys in their original order
StableSort(items, keys) ==
    [k \in 1..Len(items) |->
        items[CHOOSE j \in 1..Len(items) :
                 Cardinality({ i \in 1..Len(items) :
                                 \/ keys[i] < keys[j]
                                 \/ keys[i] = keys[j] /\ i < j }) = k - 1]]

sort_ships(table) ==
    StableSort(table, [i \in 1..Len(table) |-> ship_sort_key(table[i])])

\* replace_namecodes(ship_data, code_mapping) for a record ship_data
processed(ship_data, m) == replace_namecodes([t |-> "dict", v |-> ship_data], m).v

\* next((str(x) for x in raw_group if x), "")
RECURSIVE first_truthy_str(_, _)
first_truthy_str(l, i) ==
    IF i > Len(l) THEN EMPTY
    ELSE IF Truthy(l[i]) THEN PyStr(l[i]) ELSE first_truthy_str(l, i + 1)

\* ship_group as derived from raw_group
derive_ship_group(raw_group) ==
    IF raw_group.t = "list" THEN first_truthy_str(raw_group.v, 1)
    ELSE IF Truthy(raw_group) THEN PyStr(raw_group)
    ELSE EMPTY

final_group_untracked(ship_group, seen_groups) == ship_group

final_group(ship_group, seen_groups) ==
    IF ship_group \notin seen_groups THEN ship_group ELSE EMPTY

id2_zero_based(idx) == IntStr(idx - 1)

id2(idx) == IntStr(idx)

\* the loop of process_ships from position idx of sorted_ships on
RECURSIVE ships_loop(_, _, _, _)
ships_loop(sorted_ships, idx, seen_groups, m) ==
    IF idx > Len(sorted_ships) THEN <<>>
    ELSE LET ship_id == sorted_ships[idx][1]
             processed_data == processed(sorted_ships[idx][2], m)
             ship_group == derive_ship_group(Get(processed_data, "ship_group", NONE))
             seen == IF ship_group # EMPTY THEN seen_groups \cup {ship_group}
                     ELSE seen_groups
         IN  << [id |-> ship_id,
                 id2 |-> id2(idx),
                 name |-> Get(processed_data, "name", Str(EMPTY)),
                 ship_group |-> final_group(ship_group, seen_groups),
                 painting |-> Get(processed_data, "painting", Str(EMPTY))] >>
             \o ships_loop(sorted_ships, idx + 1, seen, m)

process_ships(table, m) == ships_loop(sort_ships(table), 1, {}, m)

next_skin_idx_stuck(skin_idx) == skin_idx

next_skin_idx(skin_idx) == skin_idx + 1

\* the loop of process_skins from position i of the sorted items on;
\* processed_data["name"] raises KeyError when the record has no name
RECURSIVE skins_loop(_, _, _, _)
skins_loop(sorted_ships, i, skin_idx, m) ==
    IF i > Len(sorted_ships) THEN [raised |-> FALSE, result |-> <<>>]
    ELSE LET ship_id == sorted_ships[i][1]
             processed_data == processed(sorted_ships[i][2], m)
         IN  IF "painting" \in DOMAIN processed_data
             THEN IF "name" \notin DOMAIN processed_data
                  THEN [raised |-> TRUE, result |-> <<>>]
                  ELSE LET rest == skins_loop(sorted_ships, i + 1,
                                              next_skin_idx(skin_idx), m)
                       IN  [raised |-> rest.raised,
                            result |-> IF rest.raised THEN <<>>
                                       ELSE << [id |-> IntStr(skin_idx),
                                                original_id |-> ship_id,
                                                name |-> processed_data["name"],
                                                painting |-> processed_data["painting"]] >>
                                            \o rest.result]
             ELSE skins_loop(sorted_ships, i + 1, skin_idx, m)

process_skins(table, m) == skins_loop(sort_ships(table), 1, 1, m)

\* {s[k]: s[v] for s in records}: a later record overwrites an earlier one
dict_of(records, k, v) ==
    [key \in { records[i][k] : i \in 1..Len(records) } |->
        records[CHOOSE i \in 1..Len(records) :
                   /\ records[i][k] = key
                   /\ \A j \in 1..Len(records) : records[j][k] = key => j <= i][v]]

build_id_mapping(ship_list, skin_list) ==
    [ship |-> [id_to_id2 |-> dict_of(ship_list, "id", "id2"),
               id2_to_id |-> dict_of(ship_list, "id2", "id")],
     skin |-> [id_to_original |-> dict_of(skin_list, "id", "original_id"),
               original_to_id |-> dict_of(skin_list, "original_id", "id")]]

----------------------------------------------------------------------------
(* Inputs of the normalizer check *)

ShipKeys == { <<"2">>, <<"1", "0">>, <<"0", "2">>, <<"7">> }

ShipRecords == {
    [name |-> Str(<<"A">>), painting |-> Str(<<"p">>), ship_group |-> Str(<<"G">>)],
    [name |-> Str(PH5), painting |-> Str(<<"q">>), ship_group |-> Num(7)],
    [name |-> Str(<<"B">>), painting |-> NONE,
     ship_group |-> List(<<NONE, Str(<<"7">>), Str(<<"G">>)>>)],
    [name |-> Str(<<"C">>), painting |-> Str(EMPTY)],
    [name |-> Str(<<"D">>), ship_group |-> Str(<<"G">>)],
    [name |-> Str(<<"E">>), ship_group |-> List(<<Num(0), Str(EMPTY)>>)],
    [name |-> Str(<<"H">>), painting |-> Str(<<"p">>), ship_group |-> Str(PH5)],
    [painting |-> Str(<<"p">>), ship_group |-> Str(<<"N">>)],
    [ship_group |-> Num(0)] }

\* tables of at most n records, as the ordered items of a dict (distinct keys)
RECURSIVE Tables(_, _, _)
Tables(n, Keys, Recs) ==
    IF n = 0 THEN { <<>> }
    ELSE LET Smaller == Tables(n - 1, Keys, Recs)
         IN  Smaller \cup
             { Append(t, <<k, r>>) :
                 t \in { u \in Smaller : Len(u) = n - 1 },
                 k \in Keys, r \in Recs }

DistinctKeys(t) == \A i, j \in 1..Len(t) : t[i][1] = t[j][1] => i = j

NameCode == (<<"5">> :> [name |-> <<"N">>])

InitNorm ==
    /\ pc = "norm"
    /\ original_data \in { t \in Tables(MaxShips, ShipKeys, ShipRecords) : DistinctKeys(t) }
    /\ code_mapping = NameCode
    /\ data = <<>> /\ once = NONE /\ twice = NONE
    /\ ships = <<>> /\ skins = <<>> /\ id_mapping = <<>>
    /\ template = <<>> /\ words = <<>> /\ mapping = <<>>
    /\ present = {} /\ written = {}

CallProcessShips ==
    /\ pc = "norm"
    /\ ships' = process_ships(original_data, code_mapping)
    /\ pc' = "ships_done"
    /\ UNCHANGED <<data, code_mapping, once, twice, original_data, skins,
                   id_mapping, template, words, mapping, present, written>>

CallProcessSkins ==
    /\ pc = "norm"
    /\ LET r == process_skins(original_data, code_mapping)
       IN  /\ skins' = r.result
           /\ pc' = IF r.raised THEN "skins_raised" ELSE "skins_done"
    /\ UNCHANGED <<data, code_mapping, once, twice, original_data, ships,
                   id_mapping, template, words, mapping, present, written>>

CallGenerateCombinedData ==
    /\ pc = "norm"
    /\ LET ship_list == process_ships(original_data, code_mapping)
           r == process_skins(original_data, code_mapping)
       IN  /\ ships' = ship_list
           /\ skins' = r.result
           /\ id_mapping' = IF r.raised THEN id_mapping
                            ELSE build_id_mapping(ship_list, r.result)
           /\ pc' = IF r.raised THEN "combined_raised" ELSE "combined_done"
    /\ UNCHANGED <<data, code_mapping, once, twice, original_data,
                   template, words, mapping, present, written>>

NextNorm == CallProcessShips \/ CallProcessSkins \/ CallGenerateCombinedData

SpecNorm == InitNorm /\ [][NextNorm]_vars

\* the source record stored under key
RecordOf(key) ==
    original_data[CHOOSE i \in 1..Len(original_data) : original_data[i][1] = key][2]

\* C1: process_ships returns exactly one ShipRecord per source key, in
\* ascending numeric order of the keys, and the record at position k has
\* id2 = str(k), so the id2 values are "1".."N" without gap or repeat.
C1_ShipsDenseId2 ==
    pc = "ships_done" =>
        /\ Len(ships) = Len(original_data)
        /\ \A i \in 1..Len(original_data) :
              Cardinality({ k \in 1..Len(ships) : ships[k].id = original_data[i][1] }) = 1
        /\ \A k, l \in 1..Len(ships) :
              k < l => ParseInt(ships[k].id) <= ParseInt(ships[l].id)
        /\ \A k \in 1..Len(ships) :
              /\ Len(ships[k].id2) > 0
              /\ ships[k].id2[1] # "0"
              /\ \A c \in 1..Len(ships[k].id2) : IsDigit(ships[k].id2[c])
              /\ ParseInt(ships[k].id2) = k
        /\ Cardinality({ ships[k].id2 : k \in 1..Len(ships) }) = Len(original_data)

\* two ships whose file order is the reverse of their numeric order
C1_Witness ==
    /\ pc = "ships_done"
    /\ Len(ships) = 2
    /\ ParseInt(original_data[1][1]) > ParseInt(original_data[2][1])
    /\ ships[1].id = original_data[2][1]
    /\ ships[2].id2 = <<"2">>

\* the source keys whose record contains "painting"
WithPainting == { original_data[i][1] : i \in { j \in 1..Len(original_data) :
                      "painting" \in DOMAIN original_data[j][2] } }

\* C2 as stated: process_skins emits a SkinRecord for a source record iff
\* the record contains "painting", in ascending numeric order of the source
\* keys, with ids "1".."M".
C2_SkinsIffPainting_AsStated ==
    pc \in {"skins_done", "skins_raised"} =>
        /\ pc = "skins_done"
        /\ { skins[k].original_id : k \in 1..Len(skins) } = WithPainting
        /\ Len(skins) = Cardinality(WithPainting)
        /\ \A k, l \in 1..Len(skins) :
              k < l => ParseInt(skins[k].original_id) <= ParseInt(skins[l].original_id)
        /\ \A k \in 1..Len(skins) : ParseInt(skins[k].id) = k

\* C3: in the id_mapping of generate_combined_data, id_to_id2 and id2_to_id
\* are inverses, id_to_original and original_to_id are inverses, and each
\* table has one entry per record of its kind.
C3_IdMappingInverses ==
    pc = "combined_done" =>
        LET ship == id_mapping.ship
            skin == id_mapping.skin
        IN  /\ \A k \in 1..Len(ships) :
                  /\ ships[k].id \in DOMAIN ship.id_to_id2
                  /\ ship.id_to_id2[ships[k].id] \in DOMAIN ship.id2_to_id
                  /\ ship.id2_to_id[ship.id_to_id2[ships[k].id]] = ships[k].id
                  /\ ships[k].id2 \in DOMAIN ship.id2_to_id
                  /\ ship.id2_to_id[ships[k].id2] \in DOMAIN ship.id_to_id2
                  /\ ship.id_to_id2[ship.id2_to_id[ships[k].id2]] = ships[k].id2
            /\ \A k \in 1..Len(skins) :
                  /\ skins[k].id \in DOMAIN skin.id_to_original
                  /\ skin.id_to_original[skins[k].id] \in DOMAIN skin.original_to_id
                  /\ skin.original_to_id[skin.id_to_original[skins[k].id]] = skins[k].id
                  /\ skins[k].original_id \in DOMAIN skin.original_to_id
                  /\ skin.original_to_id[skins[k].original_id] \in DOMAIN skin.id_to_original
                  /\ skin.id_to_original[skin.original_to_id[skins[k].original_id]]
                        = skins[k].original_id
            /\ Cardinality(DOMAIN ship.id_to_id2) = Len(ships)
            /\ Cardinality(DOMAIN ship.id2_to_id) = Len(ships)
            /\ Cardinality(DOMAIN skin.id_to_original) = Len(skins)
            /\ Cardinality(DOMAIN skin.original_to_id) = Len(skins)

\* two ships that are both skins, with numerically equal keys
C3_Witness ==
    /\ pc = "combined_done"
    /\ Len(ships) = 2
    /\ Len(skins) = 2
    /\ ParseInt(ships[1].id) = ParseInt(ships[2].id)
    /\ id_mapping.skin.original_to_id[skins[2].original_id] = <<"2">>

\* the group the claim derives from a source record
C9_Derived(rec) ==
    LET raw == Get(processed(rec, code_mapping), "ship_group", NONE)
    IN  IF raw.t = "list"
        THEN LET T == { i \in 1..Len(raw.v) : Truthy(raw.v[i]) }
             IN  IF T = {} THEN EMPTY
                 ELSE PyStr(raw.v[CHOOSE i \in T : \A j \in T : i <= j])
        ELSE IF Truthy(raw) THEN PyStr(raw) ELSE EMPTY

\* C9: each ship's group is derived from its substituted record (first
\* truthy element of a list, else the truthy scalar, else ""), and among the
\* ships of one non-empty derived group exactly the first in ascending
\* numeric id order carries it, the others carry "".
C9_GroupDedup ==
    pc = "ships_done" =>
        /\ \A k \in 1..Len(ships) :
              LET g == C9_Derived(RecordOf(ships[k].id))
                  earlier == \E j \in 1..(k - 1) :
                                C9_Derived(RecordOf(ships[j].id)) = g
              IN  /\ ships[k].ship_group = IF g # EMPTY /\ earlier THEN EMPTY ELSE g
                  /\ (ships[k].ship_group # EMPTY) =>
                        \A j \in 1..Len(ships) :
                            C9_Derived(RecordOf(ships[j].id)) = g =>
                                ParseInt(ships[k].id) <= ParseInt(ships[j].id)
        /\ \A k, l \in 1..Len(ships) :
              (k # l /\ ships[k].ship_group # EMPTY) =>
                  ships[k].ship_group # ships[l].ship_group

\* two ships of one group, one from a scalar and one from a list, the
\* numerically smaller id listed second in the file
C9_Witness ==
    /\ pc = "ships_done"
    /\ Len(ships) = 2
    /\ ships[1].id = original_data[2][1]
    /\ ships[1].ship_group = <<"7">>
    /\ ships[2].ship_group = EMPTY
    /\ C9_Derived(RecordOf(ships[2].id)) = <<"7">>
    /\ Get(RecordOf(ships[2].id), "ship_group", NONE).t = "list"

----------------------------------------------------------------------------
(* split_main_lines, generate_skin_voice_mapping *)

IsSpace(c) == c = " "

\* str.strip()
RECURSIVE Strip(_)
Strip(s) == IF Len(s) = 0 THEN s
            ELSE IF IsSpace(s[1]) THEN Strip(Tail(s))
            ELSE IF IsSpace(s[Len(s)]) THEN Strip(SubSeq(s, 1, Len(s) - 1))
            ELSE s

\* str.split("|"): the segments of s from position i on, cur being the
\* segment read so far
RECURSIVE SplitBar(_, _, _)
SplitBar(s, i, cur) ==
    IF i > Len(s) THEN <<cur>>
    ELSE IF s[i] = "|" THEN <<cur>> \o SplitBar(s, i + 1, <<>>)
    ELSE SplitBar(s, i + 1, Append(cur, s[i]))

RECURSIVE StripNonBlank(_, _)
StripNonBlank(segs, i) ==
    IF i > Len(segs) THEN <<>>
    ELSE IF Len(Strip(segs[i])) > 0
         THEN <<Strip(segs[i])>> \o StripNonBlank(segs, i + 1)
         ELSE StripNonBlank(segs, i + 1)

split_main_lines(value) ==
    IF Len(value) = 0 THEN <<>>
    ELSE StripNonBlank(SplitBar(value, 1, <<>>), 1)

UNKNOWN_SKIN == <<"?">>             \* the default name of a skin
MAIN == <<"m", "a", "i", "n">>
DROP_DESCRIP == <<"d", "r", "o", "p", "_", "d", "e", "s", "c", "r", "i", "p">>
TOUCH == <<"t", "o", "u", "c", "h">>
TOUCH2 == <<"t", "o", "u", "c", "h", "2">>
GET == <<"g", "e", "t">>

suffix_always(group_index) == <<"_">> \o IntStr(group_index)

\* "" if group_index == 0 else f"_{group_index}"
suffix_of(group_index) ==
    IF group_index = 0 THEN EMPTY ELSE <<"_">> \o IntStr(group_index)

\* the keys written to group_map for one field of a voice-line record
field_keys(key, value, suffix) ==
    IF value.t # "str" \/ Len(Strip(value.v)) = 0 THEN {}
    ELSE IF StartsWith(key, 1, MAIN)
    THEN { MAIN \o <<"_">> \o IntStr(i) \o suffix :
              i \in 1..Len(split_main_lines(value.v)) }
    ELSE LET full_key_base ==
                 IF key = DROP_DESCRIP THEN GET
                 ELSE IF key = TOUCH THEN TOUCH \o <<"_", "1">>
                 ELSE IF key = TOUCH2 THEN TOUCH \o <<"_", "2">>
                 ELSE key
         IN  { full_key_base \o suffix }

\* the entries of skins_by_group[group], in template order
RECURSIVE group_skins(_, _, _)
group_skins(tpl, i, group) ==
    IF i > Len(tpl) THEN <<>>
    ELSE LET info == tpl[i][2]
             ship_group == Get(info, "ship_group", NONE)
         IN  IF ship_group # NONE /\ PyStr(ship_group) = group
             THEN << [skin_id |-> tpl[i][1],
                      group_index |-> Get(info, "group_index", Num(0)).v,
                      name |-> Get(info, "name", Str(UNKNOWN_SKIN)).v] >>
                  \o group_skins(tpl, i + 1, group)
             ELSE group_skins(tpl, i + 1, group)

voice_sort_key_unsorted(skin) == 0

\* key=lambda x: x["group_index"]
voice_sort_key(skin) == skin.group_index

\* the loop over skin_list from position i on, group_map being built
RECURSIVE group_map_loop(_, _, _, _)
group_map_loop(skin_list, i, group_map, wds) ==
    IF i > Len(skin_list) THEN group_map
    ELSE LET skin == skin_list[i]
         IN  IF skin.skin_id \notin DOMAIN wds
             THEN group_map_loop(skin_list, i + 1, group_map, wds)
             ELSE LET word_dict == wds[skin.skin_id]
                      suffix == suffix_of(skin.group_index)
                      keys == UNION { field_keys(key, word_dict[key], suffix) :
                                        key \in DOMAIN word_dict }
                      updated == [k \in DOMAIN group_map \cup keys |->
                                     IF k \in keys THEN skin.name ELSE group_map[k]]
                  IN  group_map_loop(skin_list, i + 1, updated, wds)

skin_voice_mapping(tpl, wds) ==
    LET groups == { PyStr(tpl[i][2]["ship_group"]) :
                      i \in { j \in 1..Len(tpl) :
                                Get(tpl[j][2], "ship_group", NONE) # NONE } }
    IN  [group \in groups |->
            LET skin_list == group_skins(tpl, 1, group)
                sorted_list == StableSort(skin_list,
                                   [i \in 1..Len(skin_list) |-> voice_sort_key(skin_list[i])])
            IN  group_map_loop(sorted_list, 1, <<>>, wds)]

----------------------------------------------------------------------------
(* Inputs of the voice-mapping check *)

SkinIds == { <<"1">>, <<"2">>, <<"3">> }

SkinInfos == {
    [ship_group |-> Str(<<"G">>), group_index |-> Num(0), name |-> Str(<<"X">>)],
    [ship_group |-> Str(<<"G">>), group_index |-> Num(1), name |-> Str(<<"Y">>)],
    [ship_group |-> Str(<<"G">>), name |-> Str(<<"Z">>)],
    [ship_group |-> Num(7), group_index |-> Num(1)],
    [group_index |-> Num(1), name |-> Str(<<"W">>)] }

WordDicts == {
    (MAIN :> Str(<<"A", "|", "B">>) @@ DROP_DESCRIP :> Str(<<"d">>)
       @@ TOUCH :> Str(<<"t">>) @@ TOUCH2 :> Str(<<"u">>)
       @@ <<"f", "e", "e", "l">> :> Str(<<"f">>)),
    (MAIN :> Str(<<"C">>)),
    (MAIN \o <<"2">> :> Str(<<" ", "|", "A", "|", "|", " ", "B", " ">>)
       @@ MAIN :> Str(EMPTY) @@ TOUCH :> Str(<<" ">>) @@ <<"v">> :> Num(3)
       @@ GET \o <<"_", "1">> :> Str(<<"g">>) @@ DROP_DESCRIP :> NONE) }

WordTables == UNION { [D -> WordDicts] : D \in SUBSET SkinIds }

InitVoice ==
    /\ pc = "voice"
    /\ template \in { t \in Tables(MaxSkins, SkinIds, SkinInfos) : DistinctKeys(t) }
    /\ words \in WordTables
    /\ mapping = <<>>
    /\ data = <<>> /\ code_mapping = <<>> /\ once = NONE /\ twice = NONE
    /\ original_data = <<>> /\ ships = <<>> /\ skins = <<>> /\ id_mapping = <<>>
    /\ present = {} /\ written = {}

CallGenerateSkinVoiceMapping ==
    /\ pc = "voice"
    /\ mapping' = skin_voice_mapping(template, words)
    /\ pc' = "voice_done"
    /\ UNCHANGED <<data, code_mapping, once, twice, original_data, ships, skins,
                   id_mapping, template, words, present, written>>

NextVoice == CallGenerateSkinVoiceMapping

SpecVoice == InitVoice /\ [][NextVoice]_vars

\* the number of '|'-separated segments of v that hold a non-blank character
C5_Segments(v) ==
    LET Bars == { 0, Len(v) + 1 } \cup { i \in 1..Len(v) : v[i] = "|" }
    IN  Cardinality({ b \in Bars :
            \E c \in Bars :
                /\ b < c
                /\ \A d \in Bars : ~(b < d /\ d < c)
                /\ \E j \in (b + 1)..(c - 1) : v[j] # " " })

\* the keys the claim gives to a field of the voice-line record of a skin
\* with group_index g
C5_Keys(field, value, g) ==
    LET suffix == IF g = 0 THEN <<>> ELSE <<"_">> \o IntStr(g)
    IN  IF value.t # "str" \/ \A j \in 1..Len(value.v) : value.v[j] = " " THEN {}
        ELSE IF Len(field) >= 4 /\ SubSeq(field, 1, 4) = MAIN
        THEN { MAIN \o <<"_">> \o IntStr(i) \o suffix : i \in 1..C5_Segments(value.v) }
        ELSE IF field = DROP_DESCRIP THEN { GET \o suffix }
        ELSE IF field = TOUCH THEN { <<"t", "o", "u", "c", "h", "_", "1">> \o suffix }
        ELSE IF field = TOUCH2 THEN { <<"t", "o", "u", "c", "h", "_", "2">> \o suffix }
        ELSE { field \o suffix }

\* template entry i: whether it has a ship_group, its group, index and name
Grouped(i) == Get(template[i][2], "ship_group", NONE) # NONE
GroupOf(i) == PyStr(template[i][2]["ship_group"])
IndexOf(i) == Get(template[i][2], "group_index", Num(0)).v
NameOf(i) == Get(template[i][2], "name", Str(UNKNOWN_SKIN)).v
Voiced(i) == Grouped(i) /\ template[i][1] \in DOMAIN words
EmittedBy(i) ==
    IF ~Voiced(i) THEN {}
    ELSE UNION { C5_Keys(f, words[template[i][1]][f], IndexOf(i)) :
                   f \in DOMAIN words[template[i][1]] }

\* C5: every non-blank string field of the voice-line record of a skin
\* emits the keys main_<i><suffix> / get<suffix> / touch_1<suffix> /
\* touch_2<suffix> / <field><suffix>, mapped to the skin's name (unless
\* another skin of the group emits the same key); nothing else is emitted;
\* skins 0 and 1 of a two-skin group with main "A|B" and "C" give main_1,
\* main_2 -> skin 0 and main_1_1 -> skin 1.
C5_VoiceKeys ==
    pc = "voice_done" =>
        /\ \A i \in 1..Len(template) : \A k \in EmittedBy(i) :
              /\ GroupOf(i) \in DOMAIN mapping
              /\ k \in DOMAIN mapping[GroupOf(i)]
              /\ (\A j \in 1..Len(template) :
                     (Grouped(j) /\ GroupOf(j) = GroupOf(i) /\ k \in EmittedBy(j))
                         => NameOf(j) = NameOf(i))
                    => mapping[GroupOf(i)][k] = NameOf(i)
        /\ \A g \in DOMAIN mapping :
              DOMAIN mapping[g] \subseteq
                  UNION { EmittedBy(i) :
                            i \in { j \in 1..Len(template) : Grouped(j) /\ GroupOf(j) = g } }
        /\ \A a, b \in 1..Len(template) :
              ( /\ Voiced(a) /\ Voiced(b) /\ GroupOf(a) = GroupOf(b)
                /\ IndexOf(a) = 0 /\ IndexOf(b) = 1
                /\ \A c \in 1..Len(template) :
                      (Grouped(c) /\ GroupOf(c) = GroupOf(a)) => c \in {a, b}
                /\ Get(words[template[a][1]], MAIN, NONE) = Str(<<"A", "|", "B">>)
                /\ Get(words[template[b][1]], MAIN, NONE) = Str(<<"C">>) )
              => LET group_map == mapping[GroupOf(a)]
                     has(k, n) == k \in DOMAIN group_map /\ group_map[k] = n
                 IN  /\ has(<<"m", "a", "i", "n", "_", "1">>, NameOf(a))
                     /\ has(<<"m", "a", "i", "n", "_", "2">>, NameOf(a))
                     /\ has(<<"m", "a", "i", "n", "_", "1", "_", "1">>, NameOf(b))

\* the two-skin group of the claim, with the other field kinds present
C5_Witness ==
    /\ pc = "voice_done"
    /\ Len(template) = 2
    /\ Voiced(1) /\ Voiced(2) /\ GroupOf(1) = GroupOf(2)
    /\ IndexOf(2) = 0 /\ IndexOf(1) = 1
    /\ words[template[2][1]][MAIN] = Str(<<"A", "|", "B">>)
    /\ words[template[1][1]][MAIN] = Str(<<"C">>)
    /\ DOMAIN mapping[GroupOf(1)] =
          { <<"m", "a", "i", "n", "_", "1">>, <<"m", "a", "i", "n", "_", "2">>,
            GET, <<"t", "o", "u", "c", "h", "_", "1">>,
            <<"t", "o", "u", "c", "h", "_", "2">>, <<"f", "e", "e", "l">>,
            <<"m", "a", "i", "n", "_", "1", "_", "1">> }
    /\ mapping[GroupOf(1)][<<"m", "a", "i", "n", "_", "1", "_", "1">>] = NameOf(1)

\* entry i is processed after entry j of the same group
After(i, j) ==
    \/ IndexOf(i) > IndexOf(j)
    \/ IndexOf(i) = IndexOf(j) /\ i > j

\* C10: entries without ship_group are skipped; every other entry's group is
\* in the result even when none of its skins has a voice-line record; a key
\* of a group maps to the name of the emitting skin that comes last in
\* ascending group_index order (absent = 0, ties in template order).
C10_LastWriteWins ==
    pc = "voice_done" =>
        /\ DOMAIN mapping = { GroupOf(i) : i \in { j \in 1..Len(template) : Grouped(j) } }
        /\ \A g \in DOMAIN mapping :
              LET members == { i \in 1..Len(template) : Grouped(i) /\ GroupOf(i) = g }
              IN  /\ DOMAIN mapping[g] = UNION { EmittedBy(i) : i \in members }
                  /\ \A k \in DOMAIN mapping[g] :
                        \E i \in members :
                            /\ k \in EmittedBy(i)
                            /\ \A j \in members : (k \in EmittedBy(j) /\ j # i) => After(i, j)
                            /\ mapping[g][k] = NameOf(i)

\* two skins of one group that emit the same key, the one with the larger
\* group_index first in the template, next to a key only the other one emits
C10_Witness ==
    /\ pc = "voice_done"
    /\ Len(template) = 2
    /\ Voiced(1) /\ Voiced(2) /\ GroupOf(1) = GroupOf(2)
    /\ IndexOf(1) > IndexOf(2)
    /\ NameOf(1) # NameOf(2)
    /\ GET \o <<"_", "1">> \in EmittedBy(1) \cap EmittedBy(2)
    /\ mapping[GroupOf(1)][GET \o <<"_", "1">>] = NameOf(1)
    /\ \E k \in EmittedBy(2) \ EmittedBy(1) : mapping[GroupOf(1)][k] = NameOf(2)

----------------------------------------------------------------------------
(* main *)

SHIPS_FILE == "ship_skin_template.json"
WORDS_FILE == "ship_skin_words.json"
NAMECODE_FILE == "name_code.json"
PAINTING_FILE == "painting_filte_map.json"
required_files == { SHIPS_FILE, WORDS_FILE, NAMECODE_FILE }
additional_files == { "activity_ins_chat_language.json", "skill_data_display.json",
                      "activity_ins_ship_group_template.json",
                      "skill_data_template.json", "gametip.json" }

COMBINED_OUT == "al_combined_final.json"
ZUMING_OUT == "zuming.json"
NAME_OUT == "name.json"
VOICE_OUT == "skin_voice_mapping_optimized.json"
CONFIG_OUT == "text_config.json"    \* the consolidated auxiliary-config JSON

\* find_data_file(f) returns a path
found(f) == present[f] # "missing"

\* the first condition of main: all three tables are non-empty
main_gate ==
    /\ present[SHIPS_FILE] = "ok"
    /\ present[WORDS_FILE] = "ok"
    /\ present[NAMECODE_FILE] = "ok"

additional_gate_all == main_gate

\* the second condition of main: the namecode table is non-empty
additional_gate == present[NAMECODE_FILE] = "ok"

\* generate_name_json: ship["painting"].lower() raises on a non-string
name_json_raises(ship_list) ==
    \E k \in 1..Len(ship_list) : ship_list[k].painting.t # "str"

\* the ship tables a run may load: one record, ship_group absent or scalar
MainTables ==
    { t \in Tables(1, { <<"2">> }, ShipRecords) :
        /\ Len(t) = 1
        /\ Get(t[1][2], "ship_group", NONE).t # "list" }

MainWords == (<<"2">> :> (MAIN :> Str(<<"A", "|", "B">>) @@ TOUCH :> Str(<<"t">>)))

Init ==
    /\ pc = "start"
    /\ present \in { f \in [required_files \cup additional_files \cup {PAINTING_FILE}
                             -> {"missing", "empty", "ok"}] :
                       \A a \in additional_files \cup {PAINTING_FILE} : f[a] # "empty" }
    /\ written = {}
    /\ original_data = <<>> /\ words = <<>> /\ code_mapping = <<>>
    /\ ships = <<>> /\ skins = <<>> /\ id_mapping = <<>> /\ mapping = <<>>
    /\ data = <<>> /\ once = NONE /\ twice = NONE /\ template = <<>>

\* lines 377-398: load the three required tables ({} when missing or empty)
LoadRequired ==
    /\ pc = "start"
    /\ \E t \in MainTables :
          original_data' = IF present[SHIPS_FILE] = "ok" THEN t ELSE <<>>
    /\ words' = IF present[WORDS_FILE] = "ok" THEN MainWords ELSE <<>>
    /\ code_mapping' = IF present[NAMECODE_FILE] = "ok" THEN NameCode ELSE <<>>
    /\ pc' = "loaded"
    /\ UNCHANGED <<data, once, twice, ships, skins, id_mapping, template,
                   mapping, present, written>>

\* lines 400-423: the main artifacts; an exception of process_skins or of
\* generate_name_json leaves main
GenerateMain ==
    /\ pc = "loaded"
    /\ main_gate
    /\ LET ship_list == process_ships(original_data, code_mapping)
           r == process_skins(original_data, code_mapping)
       IN  IF r.raised
           THEN /\ pc' = "crashed"
                /\ UNCHANGED <<ships, skins, id_mapping, written>>
           ELSE /\ ships' = ship_list
                /\ skins' = r.result
                /\ id_mapping' = build_id_mapping(ship_list, r.result)
                /\ IF name_json_raises(ship_list)
                   THEN /\ written' = written \cup {COMBINED_OUT, ZUMING_OUT}
                        /\ pc' = "crashed"
                   ELSE /\ written' = written \cup {COMBINED_OUT, ZUMING_OUT, NAME_OUT}
                        /\ pc' = "main_done"
    /\ UNCHANGED <<data, code_mapping, once, twice, original_data, template,
                   words, mapping, present>>

\* lines 424-426
SkipMain ==
    /\ pc = "loaded"
    /\ ~main_gate
    /\ pc' = "main_done"
    /\ UNCHANGED <<data, code_mapping, once, twice, original_data, ships, skins,
                   id_mapping, template, words, mapping, present, written>>

\* lines 428-433
ProcessAdditional ==
    /\ pc = "main_done"
    /\ additional_gate
    /\ written' = written \cup {CONFIG_OUT}
    /\ pc' = "additional_done"
    /\ UNCHANGED <<data, code_mapping, once, twice, original_data, ships, skins,
                   id_mapping, template, words, mapping, present>>

\* lines 434-435
SkipAdditional ==
    /\ pc = "main_done"
    /\ ~additional_gate
    /\ pc' = "additional_done"
    /\ UNCHANGED <<data, code_mapping, once, twice, original_data, ships, skins,
                   id_mapping, template, words, mapping, present, written>>

\* line 437, generate_skin_voice_mapping with both files found
GenerateVoice ==
    /\ pc = "additional_done"
    /\ found(SHIPS_FILE) /\ found(WORDS_FILE)
    /\ template' = original_data
    /\ mapping' = skin_voice_mapping(original_data, words)
    /\ written' = written \cup {VOICE_OUT}
    /\ pc' = "end"
    /\ UNCHANGED <<data, code_mapping, once, twice, original_data, ships, skins,
                   id_mapping, words, present>>

\* line 437, generate_skin_voice_mapping returning early
SkipVoice ==
    /\ pc = "additional_done"
    /\ ~(found(SHIPS_FILE) /\ found(WORDS_FILE))
    /\ pc' = "end"
    /\ UNCHANGED <<data, code_mapping, once, twice, original_data, ships, skins,
                   id_mapping, template, words, mapping, present, written>>

Next ==
    \/ LoadRequired
    \/ GenerateMain
    \/ SkipMain
    \/ ProcessAdditional
    \/ SkipAdditional
    \/ GenerateVoice
    \/ SkipVoice

Spec == Init /\ [][Next]_vars

\* C6 as stated: a record that lacks a field the code reads is handled with
\* a default and is never fatal: whatever fields the records of the loaded
\* ship table lack (the fields they have being strings), no exception
\* leaves the run.
C6_MissingFieldNeverFatal_AsStated ==
    (\A k \in 1..Len(original_data) :
        \A v \in { original_data[k][2][f] : f \in DOMAIN original_data[k][2] } :
            v.t = "str")
        => pc # "crashed"

\* C7: with ship_skin_template.json missing and the other two tables loaded,
\* the run does not fail and ends having written the auxiliary-config JSON
\* and none of the four template-dependent outputs.
C7_TemplateMissing ==
    ( /\ present[SHIPS_FILE] = "missing"
      /\ present[WORDS_FILE] = "ok"
      /\ present[NAMECODE_FILE] = "ok" )
    => /\ pc # "crashed"
       /\ written \cap {COMBINED_OUT, ZUMING_OUT, NAME_OUT, VOICE_OUT} = {}
       /\ pc \in {"additional_done", "end"} => CONFIG_OUT \in written

C7_Witness ==
    /\ pc = "end"
    /\ present[SHIPS_FILE] = "missing"
    /\ present[WORDS_FILE] = "ok"
    /\ present[NAMECODE_FILE] = "ok"
    /\ written = {CONFIG_OUT}

\* the required inputs an output is computed from
DependsOn(out) ==
    CASE out = COMBINED_OUT -> { SHIPS_FILE, WORDS_FILE, NAMECODE_FILE }
      [] out = ZUMING_OUT -> { SHIPS_FILE, NAMECODE_FILE }
      [] out = NAME_OUT -> { SHIPS_FILE, NAMECODE_FILE }
      [] out = CONFIG_OUT -> { NAMECODE_FILE }
      [] out = VOICE_OUT -> { SHIPS_FILE, WORDS_FILE }

\* C8 as stated: at the end of a run an output is skipped iff one of the
\* required inputs it depends on is missing or empty.
C8_SkippedIffDependsOnMissing_AsStated ==
    pc = "end" =>
        \A out \in {COMBINED_OUT, ZUMING_OUT, NAME_OUT, CONFIG_OUT, VOICE_OUT} :
            out \notin written <=> \E f \in DependsOn(out) : present[f] # "ok"

====
